---- MODULE Spec2Model ----
(***************************************************************************)
(* Model of teensy/src/main.cpp: the fixed-rate balance-control loop of    *)
(* the rimless wheel (setup, loop, computeTorque, the bus callbacks, the   *)
(* encoder / IMU readers, the calibration sequence and the error poll).    *)
(*                                                                         *)
(* Numbers.  The program computes in float.  The model uses fixed point:   *)
(* angles and positions are integers in units of 1e-3 (milli-radian),      *)
(* rates in 1e-3 per second, torques in 1e-3.  Division by samplingTime    *)
(* (= 1/FILTER_UPDATE_RATE_HZ) is multiplication by FILTER_UPDATE_RATE_HZ. *)
(* Arrays keep the source's 0-based indices.                               *)
(*                                                                         *)
(* The variable log is the trace of device / bus / sensor operations that  *)
(* setup, or the body of the current executed tick, has issued, in program *)
(* order; cbLog is the trace of the bus callback that spinOnce ran last in *)
(* the tick.  Both are emptied when a tick starts and when it ends.        *)
(*                                                                         *)
(* sampledAt, sinceStamp, heldTorque, lastEffort, lastImu, lastRaw and     *)
(* modePending record what the program read or did last; no action reads   *)
(* them to decide anything.                                                *)
(***************************************************************************)
EXTENDS Integers, Sequences, FiniteSets, TLC

VARIABLES
    pc,               \* position of the single thread of control
    log,              \* operations issued since setup / current tick began
    cbLog,            \* operations issued by the latest bus callback of the tick
    now,              \* the millisecond clock millis() reads (32 bit, [hi, lo])
    timestamp,        \* uint32_t timestamp
    torque0, torque1, \* operator torque
    enc0Offset, enc1Offset, yawOffset,
    oldTorsoOmega, oldSpoke1Angle, oldSpoke2Angle, oldSpokeSpeed,
    spokeStates,      \* static float spokeStates[4] of readEncoder
    torsoStates,      \* static float torsoStates[3] of readIMU
    acc_COM,          \* static float acc_COM[3] of comAcceleration
    lastImu,          \* arguments of the last comAcceleration call
    sampledAt,        \* millisecond clock at the last readEncoder / readIMU
    lastEffort,       \* msg.effort of the torque message processed last
    heldTorque,       \* torque0 / torque1 when the hold loop was last entered
    sinceStamp,       \* ms that really elapsed since timestamp was taken
    modePending,      \* axes calibrated to closed loop with no torque-mode write since
    sensorStates,     \* last message published on /sensors
    errors,           \* int64_t errors[9] of readErrors (live until the tick goes on)
    ret,              \* value returned by readErrors
    lastRaw,          \* last ODrive.GetPosition(0), GetPosition(1) replies
    branch,           \* branch taken by the latest computeTorque
    prevBranch,       \* branch taken by the computeTorque of the tick before
    nTicks,           \* executed ticks so far
    nHold,            \* iterations of the latest hold loop
    nMsgs             \* messages handled by the current spinOnce

vars == <<pc, log, cbLog, now, timestamp, torque0, torque1, enc0Offset, enc1Offset,
          yawOffset, oldTorsoOmega, oldSpoke1Angle, oldSpoke2Angle,
          oldSpokeSpeed, spokeStates, torsoStates, sensorStates, errors, ret,
          lastRaw, branch, prevBranch, nTicks, nHold, nMsgs, acc_COM, lastImu, sampledAt,
          modePending, lastEffort, heldTorque, sinceStamp>>

-----------------------------------------------------------------------------
(* Bounds of the exploration *)
MaxTicks == 2      \* executed ticks explored
MaxHold == 2       \* hold-loop iterations explored per trip
MaxMsgs == 1       \* inbound messages handled per spinOnce

(* Program constants *)
FILTER_UPDATE_RATE_HZ == 100
alphaMilli == 314              \* alpha = 360/k/2 * pi/180 = 0.314 rad
OmegaBoundMilli == 3142        \* first 1e-3 rad/s value that is >= 1.0*M_PI
RADS_TO_DPS_MILLI == 57296     \* SENSORS_RADS_TO_DPS = 57.29578, in 1e-3
Half == 65536                  \* a uint32_t is kept as two 16-bit halves
CalDelayClear == 250           \* delay(250)
CalDelayReboot == 2000         \* delay(2000)
MOTOR_VELOCITY_LIMIT == 50
MOTOR_CURRENT_LIMIT == 20

samplingPeriodMs == 1000 \div FILTER_UPDATE_RATE_HZ   \* 1000*samplingTime

CONTROL_MODE_TORQUE_CONTROL == "CONTROL_MODE_TORQUE_CONTROL"
CONTROL_MODE_VELOCITY_CONTROL == "CONTROL_MODE_VELOCITY_CONTROL"
AXIS_STATE_MOTOR_CALIBRATION == "AXIS_STATE_MOTOR_CALIBRATION"
AXIS_STATE_ENCODER_OFFSET_CALIBRATION == "AXIS_STATE_ENCODER_OFFSET_CALIBRATION"
AXIS_STATE_CLOSED_LOOP_CONTROL == "AXIS_STATE_CLOSED_LOOP_CONTROL"
LOW == "LOW"
HIGH == "HIGH"

(* Inputs.  Every action draws what it reads from the environment from a   *)
(* field of the input record I it is given.                                *)
RawReads == {<<-100, -100>>, <<-120, -70>>}   \* GetPosition(0), GetPosition(1)
\* one reading of the IMU: gyro.gyro.{x,y,z} (1e-3 rad/s), accel.acceleration.{x,y,z}
\* (1e-3 m/s^2) and the roll / yaw (deg) the filter reports after the update
ImuStill == [gx |-> 0, gy |-> 0, gz |-> 0, ax |-> 0, ay |-> 0, az |-> 9810,
             roll |-> 2, yaw |-> 90]
ImuFast == [gx |-> 4000, gy |-> -500, gz |-> 250, ax |-> 1200, ay |-> -300, az |-> 9600,
            roll |-> -3, yaw |-> 45]
\* the still reading with an angular velocity above the bound
ImuSpin == [ImuStill EXCEPT !.gx = 4000]
ImuReads == {ImuStill, ImuFast}
ImuReadsCom == [gx : {-1000, 0, 4000}, gy : {-500, 700}, gz : {250},
                ax : {-300, 1200}, ay : {450}, az : {-9810, 9810},
                roll : {2}, yaw : {90}]
Efforts == {-200, 300}                        \* msg.effort[i]
FaultVals == {0, 8}                           \* replies to the error reads
Delays == {5}                                 \* ms between two loop() entries
HoldDelays == {5}                             \* ms one hold-loop iteration takes
RunStateResults == [1..3 -> BOOLEAN]          \* results of the run_state calls
ErrVecs == [0..8 -> FaultVals]
ZeroErrors == [i \in 0..8 |-> 0]
OneFault == {e \in ErrVecs : Cardinality({i \in 0..8 : e[i] # 0}) <= 1}

StepResults == {[i \in 1..3 |-> i <= k] : k \in 0..3}  \* first failure at step k+1

SomeFaults == {ZeroErrors, [i \in 0..8 |-> IF i = 4 THEN 8 ELSE 0]}

\* the control loop: sensors, interlock, torque messages
Inputs ==
    [ok |-> BOOLEAN, runState |-> StepResults, raw |-> RawReads,
     imu |-> ImuReads, start |-> {[hi |-> 0, lo |-> 0]}, delays |-> Delays,
     skew |-> {0}, errs |-> SomeFaults, pins |-> {LOW, HIGH},
     holdDelays |-> HoldDelays, efforts |-> Efforts, efforts1 |-> {0},
     buttons |-> {0}]

\* the operator commands
InputsCmd ==
    [ok |-> BOOLEAN, runState |-> {[i \in 1..3 |-> TRUE]},
     raw |-> RawReads,
     imu |-> {ImuStill, ImuSpin},
     start |-> {[hi |-> 0, lo |-> 0]}, delays |-> Delays,
     skew |-> {0}, errs |-> {ZeroErrors}, pins |-> {LOW, HIGH},
     holdDelays |-> HoldDelays, efforts |-> {300}, efforts1 |-> {0},
     buttons |-> {0, 1}]

\* the fault poll
InputsErrors ==
    [ok |-> BOOLEAN, runState |-> {[i \in 1..3 |-> TRUE]},
     raw |-> {<<-100, -100>>},
     imu |-> {ImuStill},
     start |-> {[hi |-> 0, lo |-> 0]}, delays |-> Delays,
     skew |-> {0}, errs |-> ErrVecs, pins |-> {LOW, HIGH},
     holdDelays |-> HoldDelays, efforts |-> {300}, efforts1 |-> {0},
     buttons |-> {0}]

\* the two readings of the clock of an executed iteration, 0 or 1 ms apart
InputsGate ==
    [ok |-> BOOLEAN, runState |-> {[i \in 1..3 |-> TRUE]},
     raw |-> {<<-100, -100>>},
     imu |-> ImuReads,
     start |-> {[hi |-> 0, lo |-> 0]}, delays |-> Delays,
     skew |-> {0, 1}, errs |-> {ZeroErrors}, pins |-> {LOW, HIGH},
     holdDelays |-> HoldDelays, efforts |-> {300}, efforts1 |-> {0},
     buttons |-> {0}]

\* startup shortly before the millisecond counter wraps
BeforeWrap == {[hi |-> Half - 1, lo |-> Half - 3], [hi |-> Half - 1, lo |-> Half - 12]}

InputsWrap ==
    [ok |-> BOOLEAN, runState |-> {[i \in 1..3 |-> TRUE]},
     raw |-> {<<-100, -100>>},
     imu |-> ImuReads,
     start |-> BeforeWrap, delays |-> Delays,
     skew |-> {0}, errs |-> {ZeroErrors}, pins |-> {LOW, HIGH},
     holdDelays |-> HoldDelays, efforts |-> {300}, efforts1 |-> {0},
     buttons |-> {0}]

\* the torque messages
InputsTorque ==
    [ok |-> BOOLEAN, runState |-> {[i \in 1..3 |-> TRUE]},
     raw |-> {<<-100, -100>>},
     imu |-> ImuReads,
     start |-> {[hi |-> 0, lo |-> 0]}, delays |-> Delays,
     skew |-> {0}, errs |-> {ZeroErrors}, pins |-> {LOW, HIGH},
     holdDelays |-> HoldDelays, efforts |-> Efforts \cup {0},
     efforts1 |-> Efforts \cup {0}, buttons |-> {0}]

\* the progress of a tick
InputsLive ==
    [ok |-> BOOLEAN, runState |-> {[i \in 1..3 |-> TRUE]},
     raw |-> {<<-100, -100>>},
     imu |-> ImuReads,
     start |-> {[hi |-> 0, lo |-> 0]}, delays |-> Delays,
     skew |-> {0}, errs |-> {ZeroErrors}, pins |-> {LOW, HIGH},
     holdDelays |-> HoldDelays, efforts |-> {300}, efforts1 |-> {0},
     buttons |-> {0}]

\* the inertial readings
InputsCom ==
    [ok |-> BOOLEAN, runState |-> {[i \in 1..3 |-> TRUE]},
     raw |-> {<<-100, -100>>},
     imu |-> ImuReadsCom,
     start |-> {[hi |-> 0, lo |-> 0]}, delays |-> Delays,
     skew |-> {0}, errs |-> {ZeroErrors}, pins |-> {LOW, HIGH},
     holdDelays |-> HoldDelays, efforts |-> {300}, efforts1 |-> {0},
     buttons |-> {0}]

-----------------------------------------------------------------------------
(* Operations on the motor controller, the bus and the sensors *)
Ev(op, axis, arg, val) == [op |-> op, axis |-> axis, arg |-> arg, val |-> val]

Step(name) == Ev(name, -1, "", 0)

WriteMode(axis, mode) == Ev("w controller.config.control_mode", axis, mode, 0)

SetVelocity(axis, v) == Ev("v", axis, "", v)

commandTorque(axis, torque) == <<Ev("w controller.input_torque", axis, "", torque)>>

\* digitalRead(estop_in) and the level it returned
digitalRead(pin) == Ev("digitalRead estop_in", -1, pin, 0)

estop(pin) == pin = LOW

brake ==
    <<WriteMode(0, CONTROL_MODE_VELOCITY_CONTROL),
      WriteMode(1, CONTROL_MODE_VELOCITY_CONTROL),
      SetVelocity(0, 0), SetVelocity(1, 0)>>

torqueModeBoth ==
    <<WriteMode(0, CONTROL_MODE_TORQUE_CONTROL),
      WriteMode(1, CONTROL_MODE_TORQUE_CONTROL)>>

\* the hold loop passing the operator torque on instead of 0
holdBodyWritesOperatorTorque ==
    torqueModeBoth \o commandTorque(0, -torque0) \o commandTorque(1, torque1)

holdBodyWrites == torqueModeBoth \o commandTorque(0, 0) \o commandTorque(1, 0)

normalWrites(t0, t1) == commandTorque(0, -t0) \o commandTorque(1, t1)

B2I(b) == IF b THEN 1 ELSE 0

RunState(motornum, state, ok) == Ev("run_state", motornum, state, B2I(ok))

\* the sequence going on to closed loop after a failed encoder calibration
calibrateMotorIgnoringEncoder(motornum, res) ==
    LET r1 == <<RunState(motornum, AXIS_STATE_MOTOR_CALIBRATION, res[1])>>
        r2 == <<RunState(motornum, AXIS_STATE_ENCODER_OFFSET_CALIBRATION, res[2])>>
        r3 == <<RunState(motornum, AXIS_STATE_CLOSED_LOOP_CONTROL, res[3])>>
    IN  IF ~res[1] THEN r1 ELSE r1 \o r2 \o r3

calibrateMotor(motornum, res) ==
    LET r1 == <<RunState(motornum, AXIS_STATE_MOTOR_CALIBRATION, res[1])>>
        r2 == <<RunState(motornum, AXIS_STATE_ENCODER_OFFSET_CALIBRATION, res[2])>>
        r3 == <<RunState(motornum, AXIS_STATE_CLOSED_LOOP_CONTROL, res[3])>>
    IN  IF ~res[1] THEN r1
        ELSE IF ~res[2] THEN r1 \o r2
        ELSE r1 \o r2 \o r3

\* the axes whose last successful closed-loop request has not been followed
\* by a write of torque-control mode, after the operations w
RECURSIVE trackMode(_, _)
trackMode(pending, w) ==
    IF w = <<>> THEN pending
    ELSE LET e == Head(w)
             p == IF e = RunState(e.axis, AXIS_STATE_CLOSED_LOOP_CONTROL, TRUE)
                  THEN [pending EXCEPT ![e.axis] = TRUE]
                  ELSE IF e = WriteMode(e.axis, CONTROL_MODE_TORQUE_CONTROL)
                  THEN [pending EXCEPT ![e.axis] = FALSE]
                  ELSE pending
         IN  trackMode(p, Tail(w))

-----------------------------------------------------------------------------
(* readErrors *)
RECURSIVE orNonzero(_, _)
orNonzero(errs, n) ==
    IF n = 0 THEN 0
    ELSE IF orNonzero(errs, n - 1) = 1 \/ errs[n - 1] # 0 THEN 1 ELSE 0

\* the reduction stopping one element short
readErrorsEight(errs) == orNonzero(errs, 8)

readErrors(errs) == orNonzero(errs, 9)

errorReads ==
    <<Ev("r error", -1, "", 0),
      Ev("r motor.error", 0, "", 0), Ev("r motor.error", 1, "", 0),
      Ev("r error", 0, "", 0), Ev("r error", 1, "", 0),
      Ev("r encoder.error", 0, "", 0), Ev("r encoder.error", 1, "", 0),
      Ev("r controller.error", 0, "", 0), Ev("r controller.error", 1, "", 0)>>

pollAndPublishErrors(errs) ==
    errorReads \o (IF readErrors(errs) # 0 THEN <<Step("publish /odrive_errors")>>
                   ELSE <<>>)

-----------------------------------------------------------------------------
(* readEncoder *)
\* axis 0 read without its offset
spokePositionNoOffset(axis, g, off) == IF axis = 0 THEN (-1) * g ELSE g - off

spokePosition(axis, g, off) == IF axis = 0 THEN (-1) * g - off ELSE g - off

spokeVelocity(pos, old) == (pos - old) * FILTER_UPDATE_RATE_HZ

encoderReads ==
    <<Ev("GetPosition", 0, "", 0), Ev("GetPosition", 1, "", 0),
      Ev("GetPosition", 0, "", 0), Ev("GetPosition", 1, "", 0)>>

\* readEncoder leaving the previous-position slots as they were
readEncoderStaleSlot(gets) ==
    LET p0 == spokePosition(0, gets[2][1], enc0Offset)
        p1 == spokePosition(1, gets[2][2], enc1Offset)
        v0 == spokeVelocity(p0, oldSpoke1Angle)
        v1 == spokeVelocity(p1, oldSpoke2Angle)
    IN  [spokeStates |-> [i \in 0..3 |->
                            IF i = 0 THEN p0 ELSE IF i = 1 THEN p1
                            ELSE IF i = 2 THEN v0 ELSE v1],
         oldSpoke1Angle |-> oldSpoke1Angle,
         oldSpoke2Angle |-> oldSpoke2Angle,
         oldSpokeSpeed |-> v0]

\* gets[1], gets[2]: the replies read by the two iterations of the for loop
readEncoder(gets) ==
    LET p0 == spokePosition(0, gets[2][1], enc0Offset)
        p1 == spokePosition(1, gets[2][2], enc1Offset)
        v0 == spokeVelocity(p0, oldSpoke1Angle)
        v1 == spokeVelocity(p1, oldSpoke2Angle)
    IN  [spokeStates |-> [i \in 0..3 |->
                            IF i = 0 THEN p0 ELSE IF i = 1 THEN p1
                            ELSE IF i = 2 THEN v0 ELSE v1],
         oldSpoke1Angle |-> p0,
         oldSpoke2Angle |-> p1,
         oldSpokeSpeed |-> v0]

ApplyEncoder(gets) ==
    LET r == readEncoder(gets) IN
    /\ spokeStates' = r.spokeStates
    /\ oldSpoke1Angle' = r.oldSpoke1Angle
    /\ oldSpoke2Angle' = r.oldSpoke2Angle
    /\ oldSpokeSpeed' = r.oldSpokeSpeed
    /\ lastRaw' = gets[2]

-----------------------------------------------------------------------------
(* readIMU *)
DegToMilliRad(d) == (d * 1000000) \div RADS_TO_DPS_MILLI

imuReads == <<Step("accelerometer.getEvent"), Step("gyroscope.getEvent"),
              Step("magnetometer.getEvent"), Step("filter.update")>>

Vec(a, b, c) == [i \in 0..2 |-> IF i = 0 THEN a ELSE IF i = 1 THEN b ELSE c]

\* cross takes two pointers and writes the function-static crossProd one
\* component after the other, returning a pointer to it.  x and y name
\* arrays of the memory m, so that either may be crossProd itself: a
\* component already written is then read back by the later products.
\* Products of two 1e-3 quantities are brought back to 1e-3.
cross(x, y, m) ==
    LET \* the memories in ms after the assignment to crossProd[i]
        write(i, ms) ==
            {[mm EXCEPT !.crossProd[i] =
                  (mm[x][(i + 1) % 3] * mm[y][(i + 2) % 3]
                     - mm[x][(i + 2) % 3] * mm[y][(i + 1) % 3]) \div 1000] :
             mm \in ms}
    IN  CHOOSE after \in write(2, write(1, write(0, {m}))) : TRUE

\* a lever arm of 0.1 m along z
imuToCOMAlongZ == Vec(0, 0, 100)

imuToCOM == Vec(0, 0, 0)

\* the memory after each of the three cross calls of comAcceleration; all
\* three returned pointers are the one array crossProd, whose content on
\* entry is overwritten by the first call before anything reads it
comProducts(accel, gyro, alpha_x) ==
    LET m == [imuToCOM |-> imuToCOM,
              omega |-> gyro,
              ap |-> accel,
              alpha |-> Vec(alpha_x, 0, 0),
              crossProd |-> Vec(0, 0, 0)]
        omegaCrossR == "crossProd"
        afterOmegaCrossR == cross("omega", "imuToCOM", m)
        afterAlphaCrossR == cross("alpha", "imuToCOM", afterOmegaCrossR)
    IN  <<afterOmegaCrossR, afterAlphaCrossR,
          cross("omega", omegaCrossR, afterAlphaCrossR)>>

comAcceleration(accel, gyro, alpha_x) ==
    LET m == comProducts(accel, gyro, alpha_x)[3]
        alphaCrossR == "crossProd"
        omegaCrossOmegaCrossR == "crossProd"
    IN  [i \in 0..2 |->
            m.ap[i] - m[alphaCrossR][i] - m[omegaCrossOmegaCrossR][i]]

readIMU(s) ==
    LET alpha_x == (s.gx - oldTorsoOmega) * FILTER_UPDATE_RATE_HZ
        accel == Vec(s.ax, s.ay, s.az)
        gyro == Vec(s.gx, s.gy, s.gz)
    IN
    [torsoStates |-> [i \in 0..2 |->
                        IF i = 0 THEN DegToMilliRad(s.roll)
                        ELSE IF i = 1 THEN s.gx
                        ELSE DegToMilliRad(s.yaw) - yawOffset],
     acc_COM |-> comAcceleration(accel, gyro, alpha_x),
     lastImu |-> [accel |-> accel, gyro |-> gyro, alpha_x |-> alpha_x],
     oldTorsoOmega |-> s.gx]

ApplyIMU(s) ==
    LET r == readIMU(s) IN
    /\ torsoStates' = r.torsoStates
    /\ acc_COM' = r.acc_COM
    /\ lastImu' = r.lastImu
    /\ oldTorsoOmega' = r.oldTorsoOmega

-----------------------------------------------------------------------------
(* publishSensorStates *)
publishSensorStates(torso, spoke) ==
    [position |-> <<torso[0], spoke[0], spoke[1], torso[2]>>,
     velocity |-> <<torso[1], spoke[2], spoke[3]>>]

pubSensors == <<Step("publish /sensors")>>

-----------------------------------------------------------------------------
Init ==
    /\ pc = "setup"
    /\ acc_COM = [i \in 0..2 |-> 0]
    /\ sinceStamp = 0
    /\ heldTorque = [t0 |-> 0, t1 |-> 0, fresh |-> FALSE]
    /\ lastEffort = [i \in 0..1 |-> 0]
    /\ modePending = [a \in 0..1 |-> FALSE]
    /\ sampledAt = [hi |-> 0, lo |-> 0]
    /\ lastImu = [accel |-> [i \in 0..2 |-> 0], gyro |-> [i \in 0..2 |-> 0],
                  alpha_x |-> 0]
    /\ log = <<>>
    /\ cbLog = <<>>
    /\ now = [hi |-> 0, lo |-> 0]
    /\ timestamp = [hi |-> 0, lo |-> 0]
    /\ torque0 = 0 /\ torque1 = 0
    /\ enc0Offset = 0 /\ enc1Offset = 0 /\ yawOffset = 0
    /\ oldTorsoOmega = 0
    /\ oldSpoke1Angle = alphaMilli /\ oldSpoke2Angle = alphaMilli
    /\ oldSpokeSpeed = 0
    /\ spokeStates = [i \in 0..3 |-> 0]
    /\ torsoStates = [i \in 0..2 |-> 0]
    /\ sensorStates = [position |-> <<0, 0, 0, 0>>, velocity |-> <<0, 0, 0>>]
    /\ errors = ZeroErrors
    /\ ret = 0
    /\ lastRaw = <<0, 0>>
    /\ branch = "none" /\ prevBranch = "none"
    /\ nTicks = 0 /\ nHold = 0 /\ nMsgs = 0

-----------------------------------------------------------------------------
(* setup *)
SetupNode ==
    /\ pc = "setup"
    /\ log' = log \o <<Step("nh.initNode"), Step("Serial.begin")>>
    /\ pc' = "setup_cal"
    /\ UNCHANGED <<sinceStamp, heldTorque, lastEffort, modePending, sampledAt,
                   acc_COM, lastImu, cbLog, now, timestamp, torque0, torque1,
                   enc0Offset, enc1Offset,
                   yawOffset, oldTorsoOmega, oldSpoke1Angle, oldSpoke2Angle,
                   oldSpokeSpeed, spokeStates, torsoStates, sensorStates,
                   errors, ret, lastRaw, branch, prevBranch, nTicks, nHold, nMsgs>>

loadCalibration(beginOk, loadOk) ==
    <<Ev("cal.begin", -1, "", B2I(beginOk))>>
    \o (IF beginOk THEN <<Ev("cal.loadCalibration", -1, "", B2I(loadOk))>> ELSE <<>>)

SetupCal(I) ==
    /\ pc = "setup_cal"
    /\ \E beginOk \in I.ok, loadOk \in I.ok :
           log' = log \o loadCalibration(beginOk, loadOk)
    /\ pc' = "setup_sensors"
    /\ UNCHANGED <<sinceStamp, heldTorque, lastEffort, modePending, sampledAt,
                   acc_COM, lastImu, cbLog, now, timestamp, torque0, torque1,
                   enc0Offset, enc1Offset,
                   yawOffset, oldTorsoOmega, oldSpoke1Angle, oldSpoke2Angle,
                   oldSpokeSpeed, spokeStates, torsoStates, sensorStates,
                   errors, ret, lastRaw, branch, prevBranch, nTicks, nHold, nMsgs>>

\* the fusion filter initialised before the sensors are found
bringUpSensorsFilterFirst(ok) ==
    <<Step("filter.begin"), Ev("init_sensors", -1, "", B2I(ok))>>
    \o (IF ok THEN <<Step("pinMode estop_in"), Step("setup_sensors"),
                     Step("Wire.setClock")>>
        ELSE <<>>)

bringUpSensors(ok) ==
    <<Ev("init_sensors", -1, "", B2I(ok))>>
    \o (IF ok THEN <<Step("pinMode estop_in"), Step("setup_sensors"),
                     Step("filter.begin"), Step("Wire.setClock")>>
        ELSE <<>>)

\* setup going on to the motor controller whatever init_sensors returned
afterSensorsAlwaysOn(ok) == "setup_odrive"

\* if (!init_sensors()) { ...; while (1) delay(10); }
afterSensors(ok) == IF ok THEN "setup_odrive" ELSE "halt"

SetupSensors(I) ==
    /\ pc = "setup_sensors"
    /\ \E ok \in I.ok :
           /\ log' = log \o bringUpSensors(ok)
           /\ pc' = afterSensors(ok)
    /\ UNCHANGED <<sinceStamp, heldTorque, lastEffort, modePending, sampledAt,
                   acc_COM, lastImu, cbLog, now, timestamp, torque0, torque1,
                   enc0Offset, enc1Offset,
                   yawOffset, oldTorsoOmega, oldSpoke1Angle, oldSpoke2Angle,
                   oldSpokeSpeed, spokeStates, torsoStates, sensorStates,
                   errors, ret, lastRaw, branch, prevBranch, nTicks, nHold, nMsgs>>

\* while (1) delay(10);
Halt ==
    /\ pc = "halt"
    /\ UNCHANGED vars

setAxisParameters(axis) ==
    <<Ev("w error", axis, "", 0),
      Ev("w controller.config.vel_limit", axis, "", MOTOR_VELOCITY_LIMIT),
      Ev("w motor.config.current_lim", axis, "", MOTOR_CURRENT_LIMIT)>>

openODrive ==
    <<Step("odriveSerial.begin"), Step("r vbus_voltage")>>
    \o setAxisParameters(0) \o setAxisParameters(1)

SetupODrive ==
    /\ pc = "setup_odrive"
    /\ log' = log \o openODrive
    /\ pc' = "setup_calibrate"
    /\ UNCHANGED <<sinceStamp, heldTorque, lastEffort, modePending, sampledAt,
                   acc_COM, lastImu, cbLog, now, timestamp, torque0, torque1,
                   enc0Offset, enc1Offset,
                   yawOffset, oldTorsoOmega, oldSpoke1Angle, oldSpoke2Angle,
                   oldSpokeSpeed, spokeStates, torsoStates, sensorStates,
                   errors, ret, lastRaw, branch, prevBranch, nTicks, nHold, nMsgs>>

SetupCalibrate(I) ==
    /\ pc = "setup_calibrate"
    /\ \E r0 \in I.runState, r1 \in I.runState :
           log' = log \o calibrateMotor(0, r0) \o calibrateMotor(1, r1)
    /\ pc' = "setup_offsets"
    /\ modePending' = trackMode(modePending, SubSeq(log', Len(log) + 1, Len(log')))
    /\ UNCHANGED <<sinceStamp, heldTorque, lastEffort, sampledAt, acc_COM,
                   lastImu, cbLog, now, timestamp, torque0, torque1, enc0Offset,
                   enc1Offset,
                   yawOffset, oldTorsoOmega, oldSpoke1Angle, oldSpoke2Angle,
                   oldSpokeSpeed, spokeStates, torsoStates, sensorStates,
                   errors, ret, lastRaw, branch, prevBranch, nTicks, nHold, nMsgs>>

\* the three offsets setup stores from the arrays the readers returned
captureOffsets(spoke, torso) ==
    [enc0Offset |-> spoke[0], enc1Offset |-> spoke[1], yawOffset |-> torso[2]]

SetupOffsets(I) ==
    /\ pc = "setup_offsets"
    /\ \E g1 \in I.raw, g2 \in I.raw, s \in I.imu :
           /\ ApplyEncoder(<<g1, g2>>)
           /\ ApplyIMU(s)
    /\ LET c == captureOffsets(spokeStates', torsoStates') IN
           /\ enc0Offset' = c.enc0Offset
           /\ enc1Offset' = c.enc1Offset
           /\ yawOffset' = c.yawOffset
    /\ log' = log \o encoderReads \o imuReads
                  \o <<Step("delay"), Step("capture offsets")>>
    /\ pc' = "setup_torque_mode"
    /\ sampledAt' = now
    /\ UNCHANGED <<sinceStamp, heldTorque, lastEffort, modePending, cbLog, now,
                   timestamp, torque0, torque1, sensorStates, errors, ret,
                   branch, prevBranch, nTicks, nHold, nMsgs>>

setTorqueControl(axis) ==
    <<WriteMode(axis, CONTROL_MODE_TORQUE_CONTROL),
      Ev("w motor.config.torque_constant", axis, "", 0),
      Ev("w motor.controller.enable_torque_mode_vel_limit", axis, "", 0)>>

SetupTorqueMode(I) ==
    /\ pc = "setup_torque_mode"
    /\ \E t \in I.start :
           /\ now' = t
           /\ timestamp' = t
    /\ sinceStamp' = 0
    /\ log' = log \o setTorqueControl(0) \o setTorqueControl(1) \o <<Step("Ready")>>
    /\ pc' = "loop"
    /\ modePending' = trackMode(modePending, SubSeq(log', Len(log) + 1, Len(log')))
    /\ UNCHANGED <<heldTorque, lastEffort, sampledAt, acc_COM, lastImu, cbLog,
                   torque0, torque1, enc0Offset, enc1Offset,
                   yawOffset, oldTorsoOmega, oldSpoke1Angle, oldSpoke2Angle,
                   oldSpokeSpeed, spokeStates, torsoStates, sensorStates,
                   errors, ret, lastRaw, branch, prevBranch, nTicks, nHold, nMsgs>>

-----------------------------------------------------------------------------
(* loop *)
\* 32-bit unsigned arithmetic on [hi, lo]; d is below Half
addU32(a, d) ==
    LET sum == a.lo + d IN
    [hi |-> (a.hi + (sum \div Half)) % Half, lo |-> sum % Half]

subU32(a, b) ==
    LET borrow == IF a.lo < b.lo THEN 1 ELSE 0 IN
    [hi |-> (a.hi - b.hi - borrow) % Half, lo |-> (a.lo - b.lo) % Half]

\* the difference taken as 0 once the clock reads less than the timestamp
elapsedSaturating(m, ts) ==
    IF m.hi < ts.hi \/ (m.hi = ts.hi /\ m.lo < ts.lo) THEN [hi |-> 0, lo |-> 0]
    ELSE subU32(m, ts)

\* millis() - timestamp, in uint32_t
elapsed(m, ts) == subU32(m, ts)

\* the gate also holding back the iteration at exactly one period
gatedInclusive(m, ts) == elapsed(m, ts).hi = 0 /\ elapsed(m, ts).lo <= samplingPeriodMs

gated(m, ts) == elapsed(m, ts).hi = 0 /\ elapsed(m, ts).lo < samplingPeriodMs

\* if ((millis() - timestamp) < (1000*samplingTime)) return;
LoopGated(I) ==
    /\ pc = "loop"
    /\ \E d \in I.delays :
           LET m == addU32(now, d) IN
           /\ gated(m, timestamp)
           /\ now' = m
           /\ sinceStamp' = sinceStamp + d
    /\ UNCHANGED <<heldTorque, lastEffort, modePending, sampledAt, acc_COM,
                   lastImu, cbLog, pc, log, timestamp, torque0, torque1,
                   enc0Offset, enc1Offset,
                   yawOffset, oldTorsoOmega, oldSpoke1Angle, oldSpoke2Angle,
                   oldSpokeSpeed, spokeStates, torsoStates, sensorStates,
                   errors, ret, lastRaw, branch, prevBranch, nTicks, nHold, nMsgs>>

\* timestamp = millis();  (a second reading of the clock)
LoopPass(I) ==
    /\ pc = "loop"
    /\ nTicks < MaxTicks
    /\ \E d \in I.delays, e \in I.skew :
           LET m == addU32(now, d) IN
           /\ ~gated(m, timestamp)
           /\ now' = addU32(m, e)
           /\ timestamp' = addU32(m, e)
           /\ sinceStamp' = 0
    /\ log' = <<>>
    /\ cbLog' = <<>>
    /\ nTicks' = nTicks + 1
    /\ pc' = "loop_imu"
    /\ UNCHANGED <<heldTorque, lastEffort, modePending, sampledAt, acc_COM,
                   lastImu, torque0, torque1, enc0Offset, enc1Offset,
                   yawOffset, oldTorsoOmega, oldSpoke1Angle, oldSpoke2Angle,
                   oldSpokeSpeed, spokeStates, torsoStates, sensorStates,
                   errors, ret, lastRaw, branch, prevBranch, nHold, nMsgs>>

\* the tick publishing its telemetry before the faults are polled
tickNextPublishFirst(p) ==
    IF p = "loop_imu" THEN "loop_encoder"
    ELSE IF p = "loop_encoder" THEN "loop_publish"
    ELSE IF p = "loop_publish" THEN "loop_errors"
    ELSE "compute"

\* the body of loop() after the gate, statement by statement
tickNext(p) ==
    IF p = "loop_imu" THEN "loop_encoder"
    ELSE IF p = "loop_encoder" THEN "loop_errors"
    ELSE IF p = "loop_errors" THEN "loop_publish"
    ELSE "compute"

LoopReadIMU(I) ==
    /\ pc = "loop_imu"
    /\ \E s \in I.imu : ApplyIMU(s)
    /\ log' = log \o imuReads
    /\ pc' = tickNext(pc)
    /\ UNCHANGED <<sinceStamp, heldTorque, lastEffort, modePending, sampledAt,
                   cbLog, now, timestamp, torque0, torque1, enc0Offset,
                   enc1Offset,
                   yawOffset, oldSpoke1Angle, oldSpoke2Angle,
                   oldSpokeSpeed, spokeStates, sensorStates,
                   errors, ret, lastRaw, branch, prevBranch, nTicks, nHold, nMsgs>>

LoopReadEncoder(I) ==
    /\ pc = "loop_encoder"
    /\ \E g1 \in I.raw, g2 \in I.raw : ApplyEncoder(<<g1, g2>>)
    /\ log' = log \o encoderReads
    /\ pc' = tickNext(pc)
    /\ sampledAt' = now
    /\ UNCHANGED <<sinceStamp, heldTorque, lastEffort, modePending, acc_COM,
                   lastImu, cbLog, now, timestamp, torque0, torque1, enc0Offset,
                   enc1Offset,
                   yawOffset, oldTorsoOmega, torsoStates, sensorStates,
                   errors, ret, branch, prevBranch, nTicks, nHold, nMsgs>>

\* if (readErrors() != 0) odriveErrors.publish(&errorStates);
LoopReadErrors(I) ==
    /\ pc = "loop_errors"
    /\ \E errs \in I.errs :
           /\ errors' = errs
           /\ ret' = readErrors(errs)
           /\ log' = log \o pollAndPublishErrors(errs)
    /\ pc' = tickNext(pc)
    /\ UNCHANGED <<sinceStamp, heldTorque, lastEffort, modePending, sampledAt,
                   acc_COM, lastImu, cbLog, now, timestamp, torque0, torque1,
                   enc0Offset, enc1Offset,
                   yawOffset, oldTorsoOmega, oldSpoke1Angle, oldSpoke2Angle,
                   oldSpokeSpeed, spokeStates, torsoStates, sensorStates,
                   lastRaw, branch, prevBranch, nTicks, nHold, nMsgs>>

LoopPublish ==
    /\ pc = "loop_publish"
    /\ sensorStates' = publishSensorStates(torsoStates, spokeStates)
    /\ log' = log \o pubSensors
    /\ errors' = ZeroErrors
    /\ ret' = 0
    /\ pc' = tickNext(pc)
    /\ UNCHANGED <<sinceStamp, heldTorque, lastEffort, modePending, sampledAt,
                   acc_COM, lastImu, cbLog, now, timestamp, torque0, torque1,
                   enc0Offset, enc1Offset,
                   yawOffset, oldTorsoOmega, oldSpoke1Angle, oldSpoke2Angle,
                   oldSpokeSpeed, spokeStates, torsoStates,
                   lastRaw, branch, prevBranch, nTicks, nHold, nMsgs>>

-----------------------------------------------------------------------------
(* computeTorque *)
diverged(omega) == omega >= OmegaBoundMilli

\* the angular velocity tested before the interlock
chooseBranchOmegaFirst(pin, omega) ==
    IF diverged(omega) THEN "brake"
    ELSE IF estop(pin) THEN "hold"
    ELSE "normal"

\* the branch computeTorque takes on its first poll of the interlock
chooseBranch(pin, omega) ==
    IF estop(pin) THEN "hold"
    ELSE IF diverged(omega) THEN "brake"
    ELSE "normal"

divergenceWrites == brake \o torqueModeBoth

ComputeTorque(I) ==
    /\ pc = "compute"
    /\ \E pin \in I.pins :
           LET b == chooseBranch(pin, oldTorsoOmega) IN
           /\ branch' = b
           /\ log' = log \o <<digitalRead(pin)>>
                         \o (IF b = "hold" THEN brake
                             ELSE IF b = "brake" THEN divergenceWrites
                             ELSE normalWrites(torque0, torque1))
           /\ pc' = IF b = "hold" THEN "hold" ELSE "spin"
           /\ nHold' = IF b = "hold" THEN 0 ELSE nHold
    /\ prevBranch' = branch
    /\ modePending' = trackMode(modePending, SubSeq(log', Len(log) + 1, Len(log')))
    /\ heldTorque' = IF branch' = "hold"
                     THEN [t0 |-> torque0, t1 |-> torque1, fresh |-> TRUE]
                     ELSE heldTorque
    /\ UNCHANGED <<sinceStamp, lastEffort, sampledAt, acc_COM, lastImu, cbLog,
                   now, timestamp, torque0, torque1, enc0Offset, enc1Offset,
                   yawOffset, oldTorsoOmega, oldSpoke1Angle, oldSpoke2Angle,
                   oldSpokeSpeed, spokeStates, torsoStates, sensorStates,
                   errors, ret, lastRaw, nTicks, nMsgs>>

\* while (estop()) { ... }: the poll reads asserted, one iteration of the body
HoldIterate(I) ==
    /\ pc = "hold"
    /\ nHold < MaxHold
    /\ LOW \in I.pins /\ estop(LOW)
    /\ \E g1 \in I.raw, g2 \in I.raw, s \in I.imu :
           /\ ApplyEncoder(<<g1, g2>>)
           /\ ApplyIMU(s)
    /\ sensorStates' = publishSensorStates(torsoStates', spokeStates')
    /\ log' = log \o <<digitalRead(LOW)>> \o holdBodyWrites
                  \o encoderReads \o imuReads \o pubSensors
    /\ \E d \in I.holdDelays :
           /\ now' = addU32(now, d)
           /\ sinceStamp' = sinceStamp + d
    /\ nHold' = nHold + 1
    /\ sampledAt' = now'
    /\ modePending' = trackMode(modePending, SubSeq(log', Len(log) + 1, Len(log')))
    /\ UNCHANGED <<heldTorque, lastEffort, cbLog, pc, timestamp, torque0,
                   torque1, enc0Offset, enc1Offset,
                   yawOffset, errors, ret, branch, prevBranch, nTicks, nMsgs>>

\* the hold loop left without a write
holdExitWritesNone == <<>>

\* the for loop after the while loop
holdExitWrites == torqueModeBoth

\* the poll reads released: leave the loop, select torque control, return
HoldRelease ==
    /\ pc = "hold"
    /\ ~estop(HIGH)
    /\ log' = log \o <<digitalRead(HIGH)>> \o holdExitWrites
    /\ pc' = "spin"
    /\ modePending' = trackMode(modePending, SubSeq(log', Len(log) + 1, Len(log')))
    /\ UNCHANGED <<sinceStamp, heldTorque, lastEffort, sampledAt, acc_COM,
                   lastImu, cbLog, now, timestamp, torque0, torque1, enc0Offset,
                   enc1Offset,
                   yawOffset, oldTorsoOmega, oldSpoke1Angle, oldSpoke2Angle,
                   oldSpokeSpeed, spokeStates, torsoStates, sensorStates,
                   errors, ret, lastRaw, branch, prevBranch, nTicks, nHold, nMsgs>>

-----------------------------------------------------------------------------
(* nh.spinOnce(): the callbacks of the two subscribers *)
\* torque1 = msg.effort[1];
receiveJointStateOwnEffort(effort) == [torque0 |-> effort[0], torque1 |-> effort[1]]

\* the subscribers also served from inside the hold loop
spinOnceAtHoldToo(p) == p \in {"spin", "hold"}

\* nh.spinOnce() is the last statement of loop()
spinOnceAt(p) == p = "spin"

receiveJointState(effort) == [torque0 |-> effort[0], torque1 |-> effort[0]]

SpinJointState(I) ==
    /\ spinOnceAt(pc)
    /\ nMsgs < MaxMsgs
    /\ \E e0 \in I.efforts, e1 \in I.efforts1 :
           LET effort == [i \in 0..1 |-> IF i = 0 THEN e0 ELSE e1]
               r == receiveJointState(effort)
           IN  /\ torque0' = r.torque0
               /\ torque1' = r.torque1
               /\ lastEffort' = effort
    /\ cbLog' = <<Step("receiveJointState")>>
    /\ nMsgs' = nMsgs + 1
    /\ heldTorque' = [heldTorque EXCEPT !.fresh = FALSE]
    /\ UNCHANGED <<sinceStamp, modePending, sampledAt, acc_COM, lastImu, pc,
                   log, now, timestamp, enc0Offset, enc1Offset,
                   yawOffset, oldTorsoOmega, oldSpoke1Angle, oldSpoke2Angle,
                   oldSpokeSpeed, spokeStates, torsoStates, sensorStates,
                   errors, ret, lastRaw, branch, prevBranch, nTicks, nHold>>

recalibrate(cmd, r0, r1) ==
    <<SetVelocity(0, 0), SetVelocity(1, 0), Step(cmd), Step("delay")>>
    \o calibrateMotor(0, r0) \o calibrateMotor(1, r1)

\* buttons[0]: clear errors, buttons[3]: reboot; both followed by calibration
receiveODriveCommand(b0, b3, r0, r1) ==
    IF b0 = 1 THEN [writes |-> recalibrate("sc", r0, r1), delay |-> CalDelayClear]
    ELSE IF b3 = 1 THEN [writes |-> recalibrate("sr", r0, r1), delay |-> CalDelayReboot]
    ELSE [writes |-> <<>>, delay |-> 0]

SpinODriveCommand(I) ==
    /\ spinOnceAt(pc)
    /\ nMsgs < MaxMsgs
    /\ \E b0 \in I.buttons, b3 \in I.buttons,
          r0 \in I.runState, r1 \in I.runState :
           LET r == receiveODriveCommand(b0, b3, r0, r1) IN
           /\ cbLog' = <<Step("receiveODriveCommand")>> \o r.writes
           /\ now' = addU32(now, r.delay)
           /\ sinceStamp' = sinceStamp + r.delay
    /\ nMsgs' = nMsgs + 1
    /\ modePending' = trackMode(modePending, cbLog')
    /\ UNCHANGED <<heldTorque, lastEffort, sampledAt, acc_COM, lastImu, pc, log,
                   timestamp, torque0, torque1, enc0Offset, enc1Offset,
                   yawOffset, oldTorsoOmega, oldSpoke1Angle, oldSpoke2Angle,
                   oldSpokeSpeed, spokeStates, torsoStates, sensorStates,
                   errors, ret, lastRaw, branch, prevBranch, nTicks, nHold>>

SpinReturn ==
    /\ pc = "spin"
    /\ pc' = "loop"
    /\ nMsgs' = 0
    /\ log' = <<>>
    /\ cbLog' = <<>>
    /\ UNCHANGED <<sinceStamp, heldTorque, lastEffort, modePending, sampledAt,
                   acc_COM, lastImu, now, timestamp, torque0, torque1,
                   enc0Offset, enc1Offset,
                   yawOffset, oldTorsoOmega, oldSpoke1Angle, oldSpoke2Angle,
                   oldSpokeSpeed, spokeStates, torsoStates, sensorStates,
                   errors, ret, lastRaw, branch, prevBranch, nTicks, nHold>>

-----------------------------------------------------------------------------
NextOn(I) ==
    \/ SetupNode \/ SetupCal(I) \/ SetupSensors(I) \/ Halt \/ SetupODrive
    \/ SetupCalibrate(I) \/ SetupOffsets(I) \/ SetupTorqueMode(I)
    \/ LoopGated(I) \/ LoopPass(I) \/ LoopReadIMU(I) \/ LoopReadEncoder(I)
    \/ LoopReadErrors(I) \/ LoopPublish
    \/ ComputeTorque(I) \/ HoldIterate(I) \/ HoldRelease
    \/ SpinJointState(I) \/ SpinODriveCommand(I) \/ SpinReturn

Next == NextOn(Inputs)

Spec == Init /\ [][Next]_vars

\* operator commands (clear errors, reboot) and their calibration sequences
NextCmd == NextOn(InputsCmd)

SpecCmd == Init /\ [][NextCmd]_vars

\* every combination of the nine polled fault values
NextErrors == NextOn(InputsErrors)

SpecErrors == Init /\ [][NextErrors]_vars

\* the single thread of control always takes its next step, and the
\* interlock input eventually reads released
NextLive == NextOn(InputsLive)

SpecLive ==
    Init /\ [][NextLive]_vars /\ WF_vars(NextLive) /\ WF_vars(HoldRelease)

\* the gate of loop, with the clock read twice
NextGate == NextOn(InputsGate)

SpecGate == Init /\ [][NextGate]_vars

\* the clock wrapping past zero
NextWrap == NextOn(InputsWrap)

SpecWrap == Init /\ [][NextWrap]_vars

\* both efforts of the torque messages
NextTorque == NextOn(InputsTorque)

SpecTorque == Init /\ [][NextTorque]_vars

\* a range of accelerations and angular rates
NextCom == NextOn(InputsCom)

SpecCom == Init /\ [][NextCom]_vars

-----------------------------------------------------------------------------
(* Reading the traces *)
Ops(l, op) == SelectSeq(l, LAMBDA e : e.op = op)

TorqueWrites(l) == Ops(l, "w controller.input_torque")

Has(l, op) == \E i \in 1..Len(l) : l[i].op = op

First(l, op) == CHOOSE i \in 1..Len(l) : l[i].op = op /\ \A j \in 1..(i - 1) : l[j].op # op

\* the control mode written last to an axis in l ("" if none)
LastMode(l, axis) ==
    LET W == {i \in 1..Len(l) :
                l[i].op = "w controller.config.control_mode" /\ l[i].axis = axis}
    IN  IF W = {} THEN ""
        ELSE l[CHOOSE i \in W : \A j \in W : j <= i].arg

RECURSIVE ZeroPairs(_)
ZeroPairs(n) ==
    IF n = 0 THEN <<>>
    ELSE ZeroPairs(n - 1) \o <<Ev("w controller.input_torque", 0, "", 0),
                               Ev("w controller.input_torque", 1, "", 0)>>

SetupPcs == {"setup", "setup_cal", "setup_sensors", "setup_odrive",
             "setup_calibrate", "setup_offsets", "setup_torque_mode"}

-----------------------------------------------------------------------------
(* C1: while the interlock holds the supervisor in the hold loop, and in   *)
(* the rest of that tick after the release, the only input_torque values   *)
(* written are 0 (one pair per asserted poll of the loop); in the first    *)
(* tick after a tripped tick in which the interlock reads released and the *)
(* angular velocity is below the bound, the torque writes are exactly      *)
(* -torque0 to axis 0 and torque1 to axis 1.                               *)
C1_ZeroWhileHeldThenResume ==
    /\ (pc = "hold" \/ (pc = "spin" /\ branch = "hold"))
          => TorqueWrites(log) = ZeroPairs(nHold)
    /\ (pc = "spin" /\ nMsgs = 0 /\ prevBranch = "hold" /\ branch # "hold"
        /\ oldTorsoOmega < OmegaBoundMilli)
          => TorqueWrites(log) = <<Ev("w controller.input_torque", 0, "", -torque0),
                                   Ev("w controller.input_torque", 1, "", torque1)>>

C1_Witness ==
    /\ pc = "spin" /\ nMsgs = 0
    /\ prevBranch = "hold" /\ nHold >= 2
    /\ branch = "normal" /\ torque0 # 0
    /\ Len(TorqueWrites(log)) = 2

(* C2: in every state of the hold loop the control mode written last to    *)
(* both axes is velocity control, the velocity setpoint written last is 0  *)
(* and no torque command has been written since.                           *)
C2_VelocityHoldWhileTripped ==
    pc = "hold" =>
        /\ LastMode(log, 0) = CONTROL_MODE_VELOCITY_CONTROL
        /\ LastMode(log, 1) = CONTROL_MODE_VELOCITY_CONTROL
        /\ Ops(log, "v") = <<SetVelocity(0, 0), SetVelocity(1, 0)>>
        /\ TorqueWrites(log) = <<>>

(* C3: in the first tick the published spoke positions are the             *)
(* sign-corrected raw readings minus the startup offsets, and the          *)
(* published spoke velocities are those positions divided by the sampling  *)
(* period.                                                                 *)
C3_FirstTickSeeded ==
    (nTicks = 1 /\ pc = "compute") =>
        /\ sensorStates.position[2] = (-1) * lastRaw[1] - enc0Offset
        /\ sensorStates.position[3] = lastRaw[2] - enc1Offset
        /\ sensorStates.velocity[2] = sensorStates.position[2] * FILTER_UPDATE_RATE_HZ
        /\ sensorStates.velocity[3] = sensorStates.position[3] * FILTER_UPDATE_RATE_HZ

(* C4: every readEncoder call after the first returns, for each axis, the  *)
(* velocity (position of this call - position of the call before) divided  *)
(* by the fixed samplingTime, and leaves the position just returned in the *)
(* previous-position slot of the axis.                                     *)
EncoderCallStep == pc = "loop_encoder" \/ (pc = "hold" /\ nHold' = nHold + 1)

C4_FiniteDifference ==
    [][EncoderCallStep =>
          /\ spokeStates'[2] = (spokeStates'[0] - spokeStates[0]) * FILTER_UPDATE_RATE_HZ
          /\ spokeStates'[3] = (spokeStates'[1] - spokeStates[1]) * FILTER_UPDATE_RATE_HZ
          /\ oldSpoke1Angle' = spokeStates'[0]
          /\ oldSpoke2Angle' = spokeStates'[1]]_vars

C4_Witness ==
    /\ nTicks = 2 /\ pc = "hold" /\ nHold = 1
    /\ spokeStates[2] # 0 /\ spokeStates[3] # 0

(* C5: once setup has stored the three offsets no step changes them, and   *)
(* every later encoder read returns the sign-corrected raw reading minus   *)
(* the stored offset.                                                      *)
OffsetsCaptured == pc \notin (SetupPcs \ {"setup_torque_mode"})

C5_OffsetsFrozen ==
    [][OffsetsCaptured =>
          /\ enc0Offset' = enc0Offset
          /\ enc1Offset' = enc1Offset
          /\ yawOffset' = yawOffset
          /\ EncoderCallStep =>
                /\ spokeStates'[0] = (-1) * lastRaw'[1] - enc0Offset
                /\ spokeStates'[1] = lastRaw'[2] - enc1Offset]_vars

C5_Witness ==
    /\ nTicks = 2 /\ pc = "spin"
    /\ prevBranch = "brake" /\ branch = "hold" /\ nHold = 2
    /\ Has(cbLog, "sr") /\ Has(cbLog, "run_state")
    /\ enc0Offset # 0 /\ enc1Offset # 0 /\ yawOffset # 0
    /\ spokeStates[0] # 0

(* C6: readErrors returns nonzero iff one of the nine polled values is     *)
(* nonzero, and the tick publishes the fault vector iff it returned        *)
(* nonzero.                                                                *)
FaultPublishes(l) == Len(Ops(l, "publish /odrive_errors"))

C6_AnyFault ==
    /\ pc = "loop_publish" =>
          /\ (ret # 0) <=> (\E i \in 0..8 : errors[i] # 0)
          /\ (FaultPublishes(log) = 1) <=> (ret # 0)
          /\ (FaultPublishes(log) = 0) <=> (\A i \in 0..8 : errors[i] = 0)
    /\ FaultPublishes(log) <= 1
    /\ pc \in {"loop_imu", "loop_encoder", "loop_errors"} => FaultPublishes(log) = 0

C6_Witness ==
    /\ pc = "loop_publish"
    /\ errors[8] # 0 /\ \A i \in 0..7 : errors[i] = 0
    /\ ret # 0
    /\ FaultPublishes(log) = 1

(* C7: calibrateMotor requests motor calibration, encoder offset           *)
(* calibration and closed loop control in that order, each only after the  *)
(* request before it succeeded; after a failed request nothing more is     *)
(* requested of the axis in that sequence.                                 *)
CalibrationOrdered(l) ==
    \A i \in 1..Len(l) :
        l[i].op = "run_state" =>
            /\ l[i].arg = AXIS_STATE_ENCODER_OFFSET_CALIBRATION =>
                  i > 1 /\ l[i - 1] = RunState(l[i].axis, AXIS_STATE_MOTOR_CALIBRATION, TRUE)
            /\ l[i].arg = AXIS_STATE_CLOSED_LOOP_CONTROL =>
                  i > 1 /\ l[i - 1] = RunState(l[i].axis, AXIS_STATE_ENCODER_OFFSET_CALIBRATION, TRUE)
            /\ (l[i].val = 0 /\ i < Len(l)) =>
                  ~(l[i + 1].op = "run_state" /\ l[i + 1].axis = l[i].axis)

C7_CalibrationSequence == CalibrationOrdered(log) /\ CalibrationOrdered(cbLog)

C7_Witness ==
    /\ pc = "setup_offsets"
    /\ \E i \in 1..Len(log) :
          log[i] = RunState(0, AXIS_STATE_ENCODER_OFFSET_CALIBRATION, FALSE)
    /\ \E i \in 1..Len(log) :
          log[i] = RunState(1, AXIS_STATE_CLOSED_LOOP_CONTROL, TRUE)
    /\ ~\E i \in 1..Len(log) :
          log[i].op = "run_state" /\ log[i].axis = 0
          /\ log[i].arg = AXIS_STATE_CLOSED_LOOP_CONTROL

(* C8: startup order.  A stage function numbers the steps of setup; a run  *)
(* is ordered when the stages of its steps never decrease along the trace. *)
Ordered(stage(_), l) ==
    \A i \in 1..Len(l) : \A j \in i..Len(l) :
        (stage(l[i]) # 0 /\ stage(l[j]) # 0) => stage(l[i]) <= stage(l[j])

\* the order the claim states: sensors, calibration, filter, channel, error
\* flags, limits, calibration sequence, offsets, torque mode
ClaimedStage(e) ==
    IF e.op \in {"init_sensors", "setup_sensors"} THEN 1
    ELSE IF e.op \in {"cal.begin", "cal.loadCalibration"} THEN 2
    ELSE IF e.op = "filter.begin" THEN 3
    ELSE IF e.op = "odriveSerial.begin" THEN 4
    ELSE IF e.op = "w error" THEN 5
    ELSE IF e.op \in {"w controller.config.vel_limit", "w motor.config.current_lim"} THEN 6
    ELSE IF e.op = "run_state" THEN 7
    ELSE IF e.op = "capture offsets" THEN 8
    ELSE IF e.op = "w controller.config.control_mode" THEN 9
    ELSE 0

\* calibration first, then the sensors; error flag and limits axis by axis
SetupStage(e) ==
    IF e.op \in {"cal.begin", "cal.loadCalibration"} THEN 1
    ELSE IF e.op \in {"init_sensors", "setup_sensors"} THEN 2
    ELSE IF e.op = "filter.begin" THEN 3
    ELSE IF e.op = "odriveSerial.begin" THEN 4
    ELSE IF e.op = "w error" THEN 5 + 2 * e.axis
    ELSE IF e.op \in {"w controller.config.vel_limit", "w motor.config.current_lim"}
         THEN 6 + 2 * e.axis
    ELSE IF e.op = "run_state" THEN 9 + e.axis
    ELSE IF e.op = "capture offsets" THEN 11
    ELSE IF e.op = "w controller.config.control_mode" THEN 12
    ELSE 0

Ready == pc = "loop" /\ nTicks = 0

(* C8 as stated: a run of setup that reaches Ready brings up the sensors,  *)
(* loads the calibration, initialises the filter, opens the channel, zeroes *)
(* the error flags, sets the limits, calibrates, captures the offsets and   *)
(* selects torque control, no step before a step listed earlier.            *)
C8_ClaimedStartupOrder == Ready => Ordered(ClaimedStage, log)

(* C8 amended: a run of setup that reaches Ready initialises the            *)
(* calibration helper (and, if that succeeded, loads the calibration), then *)
(* brings up the sensors, initialises the filter, opens the channel, then   *)
(* for axis 0 and then for axis 1 zeroes the error flag and sets the        *)
(* limits, then calibrates axis 0 and axis 1, captures the offsets and      *)
(* selects torque control on both axes; every one of these steps occurs.    *)
C8_StartupOrder ==
    /\ nTicks = 0 => Ordered(SetupStage, log)
    /\ Ready =>
          /\ \A op \in {"cal.begin", "init_sensors", "setup_sensors", "filter.begin",
                        "odriveSerial.begin", "capture offsets"} : Len(Ops(log, op)) = 1
          /\ \A a \in {0, 1} :
                /\ \E i \in 1..Len(log) : log[i].op = "w error" /\ log[i].axis = a
                /\ \E i \in 1..Len(log) :
                      log[i].op = "w controller.config.vel_limit" /\ log[i].axis = a
                /\ \E i \in 1..Len(log) :
                      log[i].op = "w motor.config.current_lim" /\ log[i].axis = a
                /\ \E i \in 1..Len(log) : log[i].op = "run_state" /\ log[i].axis = a
                /\ LastMode(log, a) = CONTROL_MODE_TORQUE_CONTROL
          /\ Has(log, "cal.loadCalibration")
                <=> (\E i \in 1..Len(log) : log[i].op = "cal.begin" /\ log[i].val = 1)

C8_Witness ==
    /\ Ready
    /\ Has(log, "cal.loadCalibration")
    /\ First(log, "cal.begin") < First(log, "init_sensors")
    /\ \E i \in 1..Len(log) : \E j \in 1..(i - 1) :
          /\ log[i].op = "w error" /\ log[i].axis = 1
          /\ log[j].op = "w motor.config.current_lim" /\ log[j].axis = 0

(* C9: tick order. *)
IsCommand(e) == e.op \in {"w controller.config.control_mode",
                          "w controller.input_torque", "v"}

IsSensorRead(e) == e.op \in {"gyroscope.getEvent", "GetPosition"}

IsFaultPoll(e) == e.op \in {"r error", "r motor.error", "r encoder.error",
                            "r controller.error"}

Decision == "digitalRead estop_in"

(* C9 as stated: in an executed tick the sensor telemetry is published     *)
(* only after the supervisor decision was made and its commands written.   *)
C9_ClaimedPublishAfterCommands ==
    nTicks >= 1 =>
        \A i \in 1..Len(log) :
            log[i].op = "publish /sensors" =>
                \E j \in 1..(i - 1) : log[j].op = Decision

(* C9 amended: in an executed tick orientation and spoke state are read,   *)
(* then the device faults are polled, then the sensor telemetry of the     *)
(* tick is published, and only then is the supervisor decision made and    *)
(* are the torque / brake commands written.                                *)
C9_TickOrder ==
    nTicks >= 1 =>
        /\ \A i \in 1..Len(log) :
              /\ IsFaultPoll(log[i]) =>
                    /\ \E j \in 1..(i - 1) : log[j].op = "gyroscope.getEvent"
                    /\ \E j \in 1..(i - 1) : log[j].op = "GetPosition"
              /\ log[i].op = "publish /sensors" =>
                    Len(SelectSeq(SubSeq(log, 1, i - 1), IsFaultPoll)) = 9
              /\ log[i].op = Decision =>
                    \E j \in 1..(i - 1) : log[j].op = "publish /sensors"
              /\ IsCommand(log[i]) =>
                    \E j \in 1..(i - 1) : log[j].op = Decision
        /\ Has(log, Decision) =>
              \A i \in 1..(First(log, Decision) - 1) :
                  /\ IsSensorRead(log[i]) =>
                        \A j \in 1..(i - 1) : ~IsFaultPoll(log[j])
                  /\ IsFaultPoll(log[i]) =>
                        \A j \in 1..(i - 1) : log[j].op # "publish /sensors"
        /\ pc = "spin" =>
              /\ Has(log, "publish /sensors")
              /\ \E i \in 1..Len(log) : IsCommand(log[i])

C9_Witness ==
    /\ nTicks >= 1 /\ pc = "spin" /\ branch = "normal"
    /\ First(log, "publish /sensors") < First(log, Decision)
    /\ First(log, Decision) < First(log, "w controller.input_torque")

(* C10: a loop iteration entered before the sampling period has elapsed    *)
(* changes nothing but the clock; one entered after it sets timestamp to   *)
(* the current time before anything of the tick is read or written, and    *)
(* the rest of the tick leaves timestamp alone.                            *)
\* fewer than n (< Half) milliseconds lie between ts and m, modulo 2^32
Within(m, ts, n) ==
    /\ (m.hi - ts.hi - (IF m.lo < ts.lo THEN 1 ELSE 0)) % Half = 0
    /\ (m.lo - ts.lo) % Half < n

C10_Gate ==
    [][/\ pc = "loop" =>
             IF Within(now', timestamp, samplingPeriodMs)
             THEN UNCHANGED <<heldTorque, lastEffort, modePending, sampledAt,
                              acc_COM, lastImu,
                              pc, log, cbLog, timestamp, torque0, torque1,
                              enc0Offset, enc1Offset, yawOffset, oldTorsoOmega,
                              oldSpoke1Angle, oldSpoke2Angle, oldSpokeSpeed,
                              spokeStates, torsoStates, sensorStates, errors,
                              ret, lastRaw, branch, prevBranch, nHold, nMsgs>>
             ELSE /\ timestamp' = now'
                  /\ pc' = "loop_imu"
                  /\ log' = <<>> /\ cbLog' = <<>>
                  /\ UNCHANGED <<heldTorque, lastEffort, modePending, sampledAt,
                                 acc_COM, lastImu, torque0, torque1, enc0Offset,
                                 enc1Offset,
                                 yawOffset, oldTorsoOmega, oldSpoke1Angle,
                                 oldSpoke2Angle, oldSpokeSpeed, spokeStates,
                                 torsoStates, sensorStates, lastRaw>>
       /\ pc \notin (SetupPcs \cup {"loop"}) => timestamp' = timestamp]_vars

C10_Witness ==
    /\ nTicks = 1 /\ pc = "loop"
    /\ Within(now, timestamp, 6) /\ ~Within(now, timestamp, 5)
    /\ log = <<>>

(* C11: startup goes on to the motor controller and the control loop iff   *)
(* init_sensors succeeds.  If it fails, execution idles forever: no        *)
(* operation on the motor controller is ever issued, no offset is captured *)
(* and no tick runs.  Whatever cal.begin and cal.loadCalibration returned, *)
(* setup goes on to init_sensors.                                          *)
MotorOps == {"odriveSerial.begin", "r vbus_voltage", "w error",
             "w controller.config.vel_limit", "w motor.config.current_lim",
             "run_state", "GetPosition", "w controller.config.control_mode",
             "w motor.config.torque_constant",
             "w motor.controller.enable_torque_mode_vel_limit",
             "w controller.input_torque", "v", "sc", "sr",
             "r error", "r motor.error", "r encoder.error", "r controller.error"}

SensorsResult(l, v) == \E i \in 1..Len(l) : l[i] = Ev("init_sensors", -1, "", v)

Idle ==
    /\ \A i \in 1..Len(log) : log[i].op \notin MotorOps \cup {"capture offsets"}
    /\ cbLog = <<>>
    /\ enc0Offset = 0 /\ enc1Offset = 0 /\ yawOffset = 0
    /\ nTicks = 0
    /\ sensorStates = [position |-> <<0, 0, 0, 0>>, velocity |-> <<0, 0, 0>>]

HaltedIffSensorsFailed ==
    /\ pc = "halt" => (SensorsResult(log, 0) /\ Idle)
    /\ (nTicks = 0 /\ SensorsResult(log, 0)) => pc = "halt"
    /\ (nTicks = 0 /\ pc \notin {"setup", "setup_cal", "setup_sensors", "halt"})
          => SensorsResult(log, 1)
    /\ nTicks >= 1 => pc # "halt"

IdleForever ==
    /\ pc = "halt" => UNCHANGED vars
    /\ pc = "setup_cal" => pc' = "setup_sensors"

C11_HaltIffSensorsFail == []HaltedIffSensorsFailed /\ [][IdleForever]_vars

C11_Witness ==
    /\ pc = "halt"
    /\ \E i \in 1..Len(log) : log[i] = Ev("cal.loadCalibration", -1, "", 1)
    /\ SensorsResult(log, 0)

C11_ReadyUncalibrated ==
    /\ Ready
    /\ \E i \in 1..Len(log) : log[i] = Ev("cal.begin", -1, "", 0)

(* C12: with the lever arm from the IMU to the centre of mass equal to the *)
(* zero vector, the corrected acceleration comAcceleration returns equals  *)
(* the raw acceleration component by component, and both correction terms  *)
(* (alpha x r and omega x (omega x r)) are zero, whatever the raw          *)
(* acceleration, the angular rate and the angular acceleration.            *)
Zero3 == [i \in 0..2 |-> 0]

C12_ZeroLeverArm ==
    /\ \A i \in 0..2 : acc_COM[i] = lastImu.accel[i]
    /\ \A k \in 1..3 :
          comProducts(lastImu.accel, lastImu.gyro, lastImu.alpha_x)[k].crossProd
              = Zero3

C12_Witness ==
    /\ pc = "loop_encoder" /\ nTicks = 2
    /\ lastImu.alpha_x # 0
    /\ \A i \in 0..2 : lastImu.gyro[i] # 0 /\ lastImu.accel[i] # 0
    /\ acc_COM = lastImu.accel

(* C13: after startup any two consecutive invocations of readEncoder (and  *)
(* of readIMU), those of the interlock hold loop included, are at least    *)
(* one sampling period of the millisecond clock apart.                     *)
AfterStartupSample == EncoderCallStep /\ (pc = "hold" \/ nTicks >= 2)

C13_SamplingGated ==
    [][AfterStartupSample => ~Within(sampledAt', sampledAt, samplingPeriodMs)]_vars

(* C14: in a tick whose poll of the interlock reads released and whose     *)
(* sampled angular velocity is at or above the bound, computeTorque writes *)
(* velocity-control mode and a zero velocity to both axes, writes no       *)
(* input_torque and does not enter the hold loop; when the next tick reads *)
(* released and an angular velocity below the bound it writes the normal   *)
(* torque commands again; when the interlock reads asserted the interlock  *)
(* branch is taken whatever the angular velocity.                          *)
BrakeCommand ==
    <<Ev("w controller.config.control_mode", 0, CONTROL_MODE_VELOCITY_CONTROL, 0),
      Ev("w controller.config.control_mode", 1, CONTROL_MODE_VELOCITY_CONTROL, 0),
      Ev("v", 0, "", 0), Ev("v", 1, "", 0)>>

CommandsAfterDecision ==
    SelectSeq(SubSeq(log, First(log, Decision) + 1, Len(log)), IsCommand)

FirstPoll == log[First(log, Decision)].arg

C14_DivergenceBrake ==
    (pc = "spin" /\ nMsgs = 0) =>
        /\ (FirstPoll = HIGH /\ oldTorsoOmega >= OmegaBoundMilli) =>
              /\ branch = "brake"
              /\ SubSeq(CommandsAfterDecision, 1, 4) = BrakeCommand
              /\ TorqueWrites(log) = <<>>
              /\ Len(Ops(log, Decision)) = 1
              /\ Len(Ops(log, "publish /sensors")) = 1
        /\ (FirstPoll = HIGH /\ oldTorsoOmega < OmegaBoundMilli) =>
              /\ branch = "normal"
              /\ CommandsAfterDecision =
                    <<Ev("w controller.input_torque", 0, "", -torque0),
                      Ev("w controller.input_torque", 1, "", torque1)>>
        /\ FirstPoll = LOW =>
              /\ branch = "hold"
              /\ SubSeq(CommandsAfterDecision, 1, 4) = BrakeCommand
              /\ Len(Ops(log, Decision)) >= 2

C14_Witness ==
    /\ pc = "spin" /\ nMsgs = 0
    /\ prevBranch = "brake" /\ branch = "normal"
    /\ torque0 # 0
    /\ Len(TorqueWrites(log)) = 2

C14_InterlockFirst ==
    /\ pc = "hold" /\ nHold = 0
    /\ oldTorsoOmega >= OmegaBoundMilli

(* C15: at the end of a tick that took the excess-angular-velocity branch  *)
(* the control mode written last to both axes is velocity control and the  *)
(* velocity setpoint written last is zero.                                 *)
C15_BrakeHeldToTickEnd ==
    (pc = "spin" /\ branch = "brake") =>
        /\ LastMode(log, 0) = CONTROL_MODE_VELOCITY_CONTROL
        /\ LastMode(log, 1) = CONTROL_MODE_VELOCITY_CONTROL
        /\ Ops(log, "v") = <<Ev("v", 0, "", 0), Ev("v", 1, "", 0)>>

(* C16: after startup every executed tick whose first poll of the          *)
(* interlock reads released runs to its end; a tick that entered the hold  *)
(* loop leaves it only on a poll that reads released, then writes          *)
(* torque-control mode to both axes and runs to its end, which happens if  *)
(* the input eventually reads released; a poll that reads asserted keeps   *)
(* the tick in the loop.                                                   *)
TickBodyPcs == {"loop_imu", "loop_encoder", "loop_errors", "loop_publish", "compute"}

HoldExit ==
    /\ (pc = "hold" /\ pc' # "hold") =>
          /\ pc' = "spin"
          /\ log' = log \o <<Ev("digitalRead estop_in", -1, HIGH, 0),
                              Ev("w controller.config.control_mode", 0,
                                 CONTROL_MODE_TORQUE_CONTROL, 0),
                              Ev("w controller.config.control_mode", 1,
                                 CONTROL_MODE_TORQUE_CONTROL, 0)>>
    /\ (pc = "hold" /\ Len(log') > Len(log)
          /\ log'[Len(log) + 1] = Ev("digitalRead estop_in", -1, LOW, 0)) => pc' = "hold"
    /\ (pc = "compute" /\ pc' = "hold") =>
          log'[Len(log) + 1] = Ev("digitalRead estop_in", -1, LOW, 0)

C16_OnlyHoldBlocks ==
    /\ (pc \in TickBodyPcs) ~> (pc \in {"hold", "spin"})
    /\ (pc = "spin") ~> (pc = "loop")
    /\ (pc = "hold") ~> (pc = "spin")
    /\ [][HoldExit]_vars

C16_Witness ==
    /\ pc = "loop" /\ nTicks = 2
    /\ branch = "hold" /\ nHold = 2

(* C17: every successful calibration sequence of an axis, at startup or on *)
(* an operator clear-errors / reboot command, is followed by a write of    *)
(* torque-control mode to that axis before the next input_torque command   *)
(* is written to it.                                                       *)
RECURSIVE TorqueWhilePending(_, _)
TorqueWhilePending(pending, w) ==
    IF w = <<>> THEN FALSE
    ELSE LET e == Head(w) IN
         \/ (e.op = "w controller.input_torque" /\ pending[e.axis])
         \/ TorqueWhilePending(trackMode(pending, <<e>>), Tail(w))

Issued == IF Len(log') >= Len(log) THEN SubSeq(log', Len(log) + 1, Len(log')) ELSE <<>>

C17_TorqueModeAfterCalibration ==
    [][~TorqueWhilePending(modePending, Issued)]_vars

(* C18: a tick that takes the normal branch writes exactly two torque      *)
(* commands, to axis 0 and then to axis 1, of values -t and +t where t is  *)
(* effort[0] of the torque message processed last (0 if none was); the two *)
(* values are of equal magnitude and opposite sign, and effort[1] of the   *)
(* message has no influence.                                               *)
C18_OppositeTorques ==
    /\ torque0 = lastEffort[0] /\ torque1 = lastEffort[0]
    /\ (pc = "spin" /\ nMsgs = 0 /\ branch = "normal") =>
          /\ TorqueWrites(log) =
                <<Ev("w controller.input_torque", 0, "", -lastEffort[0]),
                  Ev("w controller.input_torque", 1, "", lastEffort[0])>>
          /\ TorqueWrites(log)[1].val + TorqueWrites(log)[2].val = 0

C18_Witness ==
    /\ pc = "spin" /\ nMsgs = 0 /\ branch = "normal"
    /\ lastEffort[0] = 300 /\ lastEffort[1] = -200
    /\ TorqueWrites(log)[1].val = -300 /\ TorqueWrites(log)[2].val = 300

(* C19 as stated: no inbound message is processed in the hold loop or in a *)
(* gated iteration, torque0 and torque1 are the same at the exit of the    *)
(* hold loop as at its entry, no operator recalibration runs during the    *)
(* hold, and the torque written on the first tick after the release is the *)
(* one held when the interlock tripped.                                    *)
MessageStep ==
    \/ torque0' # torque0 \/ torque1' # torque1 \/ lastEffort' # lastEffort
    \/ (cbLog' # cbLog /\ cbLog' # <<>>)
    \/ nMsgs' > nMsgs

OnlyAtTickEnd == MessageStep => (pc = "spin" /\ pc' = "spin")

HeldThroughTrip ==
    (pc = "hold" \/ (pc = "spin" /\ nMsgs = 0 /\ branch = "hold")) =>
        /\ torque0 = heldTorque.t0 /\ torque1 = heldTorque.t1
        /\ cbLog = <<>>

FirstTickAfterRelease ==
    pc = "spin" /\ nMsgs = 0 /\ prevBranch = "hold" /\ branch = "normal"

ResumesWithHeld ==
    TorqueWrites(log) = <<Ev("w controller.input_torque", 0, "", -heldTorque.t0),
                          Ev("w controller.input_torque", 1, "", heldTorque.t1)>>

C19_ClaimedResumeWithTripTorque ==
    /\ [][OnlyAtTickEnd]_vars
    /\ [](HeldThroughTrip /\ (FirstTickAfterRelease => ResumesWithHeld))

(* C19 amended: no inbound message is processed in the hold loop or in a   *)
(* gated iteration (only by the spinOnce that ends an executed tick), so   *)
(* torque0 and torque1 are the same at the exit of the hold loop as at its *)
(* entry and no operator recalibration runs during the hold; the torque    *)
(* written on the first tick after the release is the one held when the    *)
(* interlock tripped unless the spinOnce that ends the tripped tick        *)
(* processed a torque message, and then it is that message's.              *)
C19_MessagesOnlyAtTickEnd ==
    /\ [][OnlyAtTickEnd]_vars
    /\ [](/\ HeldThroughTrip
          /\ (FirstTickAfterRelease /\ heldTorque.fresh) => ResumesWithHeld
          /\ (FirstTickAfterRelease /\ ~heldTorque.fresh) =>
                TorqueWrites(log) =
                    <<Ev("w controller.input_torque", 0, "", -lastEffort[0]),
                      Ev("w controller.input_torque", 1, "", lastEffort[0])>>)

C19_Witness ==
    /\ pc = "spin" /\ nMsgs = 0 /\ branch = "hold" /\ nHold = 2
    /\ torque0 # 0 /\ heldTorque.t0 = torque0 /\ heldTorque.fresh

(* C20: the gate is right across the wrap of the 32-bit millisecond        *)
(* counter: an iteration of loop executes the tick iff at least one        *)
(* sampling period of real time has passed since timestamp was taken, and  *)
(* returns at once iff less has, also when millis() has wrapped past zero  *)
(* since then.                                                             *)
GateTest == pc = "loop" /\ now' # now

\* real time from the taking of timestamp to the clock reading of this test
RealElapsedAtTest == sinceStamp + subU32(now', now).lo

C20_GateAcrossWrap ==
    [][GateTest =>
          /\ (pc' = "loop_imu") <=> (RealElapsedAtTest >= samplingPeriodMs)
          /\ (pc' = "loop") <=> (RealElapsedAtTest < samplingPeriodMs)
          /\ pc' = "loop" => sinceStamp' = RealElapsedAtTest
          /\ pc' = "loop_imu" => (timestamp' = now' /\ sinceStamp' = 0)]_vars

C20_Witness ==
    /\ pc = "loop" /\ nTicks = 1
    /\ timestamp.hi = Half - 1 /\ now.hi = 0
    /\ sinceStamp = 5

====
